---- MODULE Spec2Model ----
(***************************************************************************)
(* A model of vmd's style system and line-wrapping writer (writer.py) and  *)
(* of its configuration reader and style descriptor parser (config.py).    *)
(*                                                                         *)
(* Text is a sequence of one-character strings.  The output sink is a      *)
(* sequence of strings: the characters written, and one token per escape   *)
(* sequence a Style sends.  Python's None is the empty tuple and a value   *)
(* that may be None is wrapped in a one-element tuple (Some).              *)
(***************************************************************************)
EXTENDS Integers, Sequences, FiniteSets, TLC

VARIABLES
    \* ---- DisplayWriter (writer.py) ----
    columns,                  \* DisplayWriter.columns
    chars_on_line,            \* DisplayWriter.chars_on_line
    prefix,                   \* DisplayWriter._prefix
    prefix_printable_length,  \* DisplayWriter.prefix_printable_length
    style_stack,              \* TextStyleWriter.style_stack
    out,                      \* everything written to TextStyleWriter.output
    pc,                       \* "idle", or "loop" inside DisplayWriter.write_text(str)
    text,                     \* the characters of the current call not yet consumed
    buf,                      \* the local buf of DisplayWriter.write_text
    group_stack,              \* styles (or None) of the Text groups being walked
    fed,                      \* history: every character passed to write_text(str)
    prefix_sets,              \* history: number of assignments to prefix
    steps,                    \* history: groups entered, leaves written, prefixes set
    \* ---- ConfigReader (config.py) ----
    file,                     \* the lines of the config file, as opened
    conf_file,                \* ConfigReader.conf_file: the lines not yet read
    line,                     \* read_config's line (None at the end of the file)
    current_group,            \* read_config's current_group
    config,                   \* read_config's config
    rc_pc,                    \* "start", "loop", "returned" or "raised"
    raised,                   \* the exception raised: None, or its message and argument
    \* ---- StyleParser (config.py) ----
    raw_tokens,               \* history: the tokens of the descriptor as written
    styles_str,               \* parse's argument
    tokens,                   \* the parts of styles_str.split(',') not yet looked at
    styles,                   \* parse's styles
    sp_pc,                    \* "start", "loop", "returned" or "raised"
    sp_result,                \* None, or the Style returned
    sp_raised,                \* None, or the message and argument of the exception
    \* ---- Config.load (config.py) ----
    ld_exists,                \* os.path.isfile(path)
    ld_file,                  \* the lines of the file at path
    ld_pc,                    \* "start", "styles", "formatting", "done" or "raised"
    ld_config,                \* load's config: what read_config returned
    sc_input,                 \* history: None, or the map StylesConfig was given
    loaded,                   \* Config.config: the objects built, by key
    ld_raised,                \* None, or the message and argument of the exception
    \* ---- two writers, one after the other ----
    run,                      \* 1 for the first DisplayWriter, 2 for the second
    trace,                    \* history: the calls made on the writer of this run
    first                     \* None, or the calls made on the first writer and
                              \* what it came to

wvars == <<columns, chars_on_line, prefix, prefix_printable_length, style_stack,
           out, pc, text, buf, group_stack, fed, prefix_sets, steps>>

cvars == <<file, conf_file, line, current_group, config, rc_pc, raised>>

pvars == <<raw_tokens, styles_str, tokens, styles, sp_pc, sp_result, sp_raised>>

lvars == <<ld_exists, ld_file, ld_pc, ld_config, sc_input, loaded, ld_raised>>

tvars == <<run, trace, first>>

vars == <<wvars, cvars, pvars, lvars, tvars>>

----------------------------------------------------------------------------
(* Bounds of the model *)

MaxColumns == 3      \* terminal widths 1..MaxColumns (and the scenario width)
MaxChars == 3        \* characters fed to write_text in total
MaxPrefixSets == 1   \* assignments to prefix
MaxLines == 3        \* lines of a config file
MaxTokens == 3       \* tokens of a style descriptor
MaxCalls == 3        \* SpecTwice: calls made on each of the two writers
MaxSteps == 4        \* SpecTree: groups entered, leaves written and prefixes set

----------------------------------------------------------------------------
(* Generic helpers *)

None == <<>>
Some(x) == <<x>>

Reverse(s) == [i \in 1..Len(s) |-> s[Len(s) + 1 - i]]

\* s[a:b] of Python, 0-based, end exclusive, 0 <= a
Slice(s, a, b) == SubSeq(s, a + 1, b)

SeqsUpTo(S, n) == UNION {[1..k -> S] : k \in 0..n}

----------------------------------------------------------------------------
(* Styles (styles.py) and what they send to the sink *)

SimpleStyle(kind) == [kind |-> kind, code |-> 0, children |-> <<>>]

ClearStyle == SimpleStyle("clear")
BoldStyle == SimpleStyle("bold")
ItalicStyle == SimpleStyle("italic")
UnderlineStyle == SimpleStyle("underline")
InverseStyle == SimpleStyle("inverse")
FaintStyle == SimpleStyle("faint")

ForegroundColourStyle(n) == [kind |-> "fgcolour", code |-> n, children |-> <<>>]
BackgroundColourStyle(n) == [kind |-> "bgcolour", code |-> n, children |-> <<>>]

CompositeStyle(components) == [kind |-> "composite", code |-> 0, children |-> components]

\* The token standing for the escape sequence of a style that is no Composite
\* (the colour code stays in the Style value; the token abstracts it).
Escape(style) ==
    CASE style.kind = "clear" -> "<clear>"
      [] style.kind = "bold" -> "<bold>"
      [] style.kind = "italic" -> "<italic>"
      [] style.kind = "underline" -> "<underline>"
      [] style.kind = "inverse" -> "<inverse>"
      [] style.kind = "faint" -> "<faint>"
      [] style.kind = "fgcolour" -> "<fgcolour>"
      [] style.kind = "bgcolour" -> "<bgcolour>"

EscapeTokens ==
    {"<clear>", "<bold>", "<italic>", "<underline>", "<inverse>", "<faint>",
     "<fgcolour>", "<bgcolour>"}

\* style.apply(output): a Composite sends its children's sequences in order
RECURSIVE Apply(_)
Apply(style) ==
    IF style.kind = "composite"
    THEN IF style.children = <<>>
         THEN <<>>
         ELSE Apply(Head(style.children))
              \o Apply(CompositeStyle(Tail(style.children)))
    ELSE <<Escape(style)>>

----------------------------------------------------------------------------
(* Characters *)

\* str.isprintable() on the characters of the model
IsPrintable(char) == char \notin {"\n", "\t"}

\* utils.get_printable_length
RECURSIVE get_printable_length(_)
get_printable_length(s) ==
    IF s = <<>> THEN 0
    ELSE (IF IsPrintable(Head(s)) THEN 1 ELSE 0) + get_printable_length(Tail(s))

----------------------------------------------------------------------------
(* TextStyleWriter and DisplayWriter, as operators on the writer's fields  *)
(* w = [columns, chars_on_line, prefix, prefix_printable_length,           *)
(*      style_stack, out]                                                  *)

Writer == [columns |-> columns, chars_on_line |-> chars_on_line,
           prefix |-> prefix, prefix_printable_length |-> prefix_printable_length,
           style_stack |-> style_stack, out |-> out]

\* output.write(s)
Write(w, s) == [w EXCEPT !.out = @ \o s]

push_style(w, style) ==
    Write([w EXCEPT !.style_stack = Append(@, style)], Apply(style))

RECURSIVE apply_all_styles(_, _)
apply_all_styles(w, stack) ==
    IF stack = <<>> THEN w
    ELSE apply_all_styles(Write(w, Apply(Head(stack))), Tail(stack))

\* mutant: the remaining styles are not reapplied after Clear
pop_style_no_reapply(w) ==
    Write([w EXCEPT !.style_stack = SubSeq(@, 1, Len(@) - 1)], Apply(ClearStyle))

pop_style(w) ==
    LET popped == [w EXCEPT !.style_stack = SubSeq(@, 1, Len(@) - 1)]
        cleared == Write(popped, Apply(ClearStyle))
    IN  apply_all_styles(cleared, cleared.style_stack)

\* TextStyleWriter(self.output).write_text(self.prefix): a fresh writer on the
\* same sink, the prefix being a string
write_prefix_text(w) == Write(w, w.prefix)

\* mutant: the prefix is written under the styles of the body
write_prefix_unstyled(w) ==
    IF w.prefix # <<>> THEN write_prefix_text(w) ELSE w

\* mutant: the Clear pushed for the prefix is never popped
write_prefix_no_pop(w) ==
    IF w.prefix # <<>>
    THEN apply_all_styles(
             Write(write_prefix_text(push_style(w, ClearStyle)), Apply(ClearStyle)),
             w.style_stack)
    ELSE w

write_prefix(w) ==
    IF w.prefix # <<>>
    THEN pop_style(write_prefix_text(push_style(w, ClearStyle)))
    ELSE w

\* mutant: the styles are cleared before the line break and reapplied after it
new_line_clearing(w) ==
    LET cleared == Write(w, Apply(ClearStyle) \o <<"\n">>)
    IN  write_prefix(apply_all_styles([cleared EXCEPT !.chars_on_line = 0],
                                      cleared.style_stack))

new_line(w) ==
    write_prefix([Write(w, <<"\n">>) EXCEPT !.chars_on_line = 0])

\* mutant: the length of the prefix is taken off as it is
line_space_no_mod(w) == w.columns - w.prefix_printable_length

line_space(w) == w.columns - (w.prefix_printable_length % w.columns)

available_line_space(w) == line_space(w) - w.chars_on_line

\* re.search(' ', s): the 0-based start of the first match, or None
RECURSIVE SearchSpace(_)
SearchSpace(s) ==
    IF s = <<>> THEN None
    ELSE IF Head(s) = " " THEN Some(0)
    ELSE LET r == SearchSpace(Tail(s)) IN IF r = None THEN None ELSE Some(r[1] + 1)

\* mutant: the search runs forward and finds the first space
get_break_index_first(b) == SearchSpace(b)

get_break_index(b) ==
    LET break_match == SearchSpace(Reverse(b))
    IN  IF break_match = None THEN None
        ELSE Some(Len(b) - break_match[1] - 1)

\* prefix setter
set_prefix(w, value) ==
    LET assigned ==
            IF value # None /\ value[1] # <<>>
            THEN [w EXCEPT !.prefix = value[1],
                           !.prefix_printable_length = get_printable_length(value[1])]
            ELSE [w EXCEPT !.prefix = <<>>, !.prefix_printable_length = 0]
    IN  IF assigned.chars_on_line > 0 THEN new_line(assigned) ELSE write_prefix(assigned)

\* mutant: the space of the break is carried too
carry_from_break(b, break_index) == Slice(b, break_index, Len(b))

\* The characters carried into the new line's buffer by a space-based break
carry_after_break(b, break_index) == Slice(b, break_index + 1, Len(b))

\* One iteration of the loop of DisplayWriter.write_text over a string:
\* the writer and the buffer after consuming char
write_char(w, b, char) ==
    IF char = "\n"
    THEN [w |-> new_line(Write(w, b)), buf |-> <<>>]
    ELSE
        LET b1 == Append(b, char)
            w1 == IF IsPrintable(char)
                  THEN [w EXCEPT !.chars_on_line = @ + 1]
                  ELSE w
        IN  IF available_line_space(w1) < 0
            THEN LET break_index == get_break_index(b1)
                 IN  IF break_index = None
                     THEN [w |-> new_line(Write(w1, Slice(b1, 0, Len(b1) - 1))),
                           buf |-> <<char>>]
                     ELSE [w |-> new_line(Write(w1, Slice(b1, 0, break_index[1]))),
                           buf |-> carry_after_break(b1, break_index[1])]
            ELSE [w |-> w1, buf |-> b1]

----------------------------------------------------------------------------
(* The writer as a state machine.  A StyledText tree is walked depth first: *)
(* entering a group, writing a string leaf and leaving a group are the      *)
(* steps of TextStyleWriter.write_text; group_stack is the recursion's      *)
(* position.  Between the steps the formatter may assign the prefix.        *)

\* the text of the wrapping scenario, and its terminal width
Lorem == <<"l", "o", "r", "e", "m", " ", "i", "p", "s", "u", "m", " ",
           "d", "o", "l", "o", "r">>

LoremColumns == 6

\* the strings written in Spec
Texts == SeqsUpTo({"a", " ", "\n", "\t"}, MaxChars)

\* the string leaves of the trees walked in SpecTree
TreeTexts == {<<"a">>, <<" ">>, <<"a", "\n", "a">>}

Styles == {BoldStyle, ItalicStyle}

Prefixes == {None, Some(<<>>), Some(<<">">>), Some(<<">", ">", ">", ">">>)}

WriterInit ==
    /\ chars_on_line = 0
    /\ prefix = <<>>
    /\ prefix_printable_length = 0
    /\ style_stack = <<>>
    /\ out = <<>>
    /\ pc = "idle"
    /\ text = <<>>
    /\ buf = <<>>
    /\ group_stack = <<>>
    /\ fed = <<>>
    /\ prefix_sets = 0
    /\ steps = 0

SetWriter(w) ==
    /\ chars_on_line' = w.chars_on_line
    /\ prefix' = w.prefix
    /\ prefix_printable_length' = w.prefix_printable_length
    /\ style_stack' = w.style_stack
    /\ out' = w.out
    /\ UNCHANGED columns

\* TextStyleWriter.write_text on a Text: the group is entered
EnterGroup(style) ==
    /\ pc = "idle"
    /\ group_stack' = Append(group_stack, style)
    /\ SetWriter(IF style # None THEN push_style(Writer, style[1]) ELSE Writer)
    /\ UNCHANGED <<pc, text, buf, fed, prefix_sets>>
    /\ UNCHANGED <<cvars, pvars, lvars>>

\* TextStyleWriter.write_text on a Text: its children are done
LeaveGroup ==
    /\ pc = "idle"
    /\ group_stack # <<>>
    /\ group_stack' = SubSeq(group_stack, 1, Len(group_stack) - 1)
    /\ SetWriter(IF group_stack[Len(group_stack)] # None
                 THEN pop_style(Writer) ELSE Writer)
    /\ UNCHANGED <<pc, text, buf, fed, prefix_sets, steps>>
    /\ UNCHANGED <<cvars, pvars, lvars>>

ExitGroup == LeaveGroup /\ UNCHANGED tvars

\* DisplayWriter.write_text on a string: the call starts with an empty buffer
WriteText(t) ==
    /\ pc = "idle"
    /\ pc' = "loop"
    /\ text' = t
    /\ buf' = <<>>
    /\ fed' = fed \o t
    /\ UNCHANGED <<columns, chars_on_line, prefix, prefix_printable_length,
                   style_stack, out, group_stack, prefix_sets>>
    /\ UNCHANGED <<cvars, pvars, lvars>>

\* one iteration of its loop
WriteChar ==
    /\ pc = "loop"
    /\ text # <<>>
    /\ LET r == write_char(Writer, buf, Head(text))
       IN  SetWriter(r.w) /\ buf' = r.buf
    /\ text' = Tail(text)
    /\ UNCHANGED <<pc, group_stack, fed, prefix_sets, steps>>
    /\ UNCHANGED <<cvars, pvars, lvars, tvars>>

\* the loop is over: the buffer is flushed and the call returns
WriteTextReturn ==
    /\ pc = "loop"
    /\ text = <<>>
    /\ SetWriter(Write(Writer, buf))
    /\ buf' = <<>>
    /\ pc' = "idle"
    /\ UNCHANGED <<text, group_stack, fed, prefix_sets, steps>>
    /\ UNCHANGED <<cvars, pvars, lvars, tvars>>

\* writer.prefix = value, by the formatter between two trees
SetPrefix(value) ==
    /\ pc = "idle"
    /\ group_stack = <<>>
    /\ prefix_sets' = prefix_sets + 1
    /\ SetWriter(set_prefix(Writer, value))
    /\ UNCHANGED <<pc, text, buf, group_stack, fed>>
    /\ UNCHANGED <<cvars, pvars, lvars>>

\* Spec: the formatter writes a string within the bound on the characters
\* fed, or the scenario's text, or assigns the prefix
FeedText(t) ==
    /\ \/ Len(fed) + Len(t) <= MaxChars
       \/ t = Lorem /\ columns = LoremColumns /\ fed = <<>>
    /\ WriteText(t)
    /\ UNCHANGED <<steps, tvars>>

AssignPrefix(value) ==
    prefix_sets < MaxPrefixSets /\ SetPrefix(value) /\ UNCHANGED <<steps, tvars>>

WrapNext ==
    \/ \E t \in Texts \cup {Lorem} : FeedText(t)
    \/ WriteChar
    \/ WriteTextReturn
    \/ \E value \in Prefixes : AssignPrefix(value)

\* SpecTree: the walk reaches a group or a leaf, or the formatter assigns the
\* prefix; each counts as a step
CountStep == steps < MaxSteps /\ steps' = steps + 1 /\ UNCHANGED tvars

TreeEnterGroup(style) == CountStep /\ EnterGroup(style)

TreeWriteText(t) == CountStep /\ WriteText(t)

TreeSetPrefix(value) == CountStep /\ SetPrefix(value)

TreeNext ==
    \/ \E style \in {None} \cup {Some(s) : s \in Styles} : TreeEnterGroup(style)
    \/ ExitGroup
    \/ \E t \in TreeTexts : TreeWriteText(t)
    \/ WriteChar
    \/ WriteTextReturn
    \/ \E value \in Prefixes : TreeSetPrefix(value)


----------------------------------------------------------------------------
(* Two writers, one after the other: the first is fed some calls, then a    *)
(* second one is constructed with the same columns and fed the same calls.  *)

\* mutant: chars_on_line is kept in the class and outlives the instance
DisplayWriter_init_keep_count(self, cols) ==
    [self EXCEPT !.columns = cols, !.style_stack = <<>>, !.out = <<>>,
                 !.prefix = <<>>, !.prefix_printable_length = 0]

\* TextStyleWriter.__init__ and DisplayWriter.__init__ on a new object with a
\* sink of its own: every field is assigned, whatever was there before
DisplayWriter_init(self, cols) ==
    [columns |-> cols, chars_on_line |-> 0, prefix |-> <<>>,
     prefix_printable_length |-> 0, style_stack |-> <<>>, out |-> <<>>]

TwiceVarsInit == run = 1 /\ trace = <<>> /\ first = None

\* the call may be made: any call on the first writer, on the second the call
\* the first writer got at this place
Logged(call) ==
    /\ \/ run = 1 /\ Len(trace) < MaxCalls
       \/ /\ run = 2
          /\ Len(trace) < Len(first[1].trace)
          /\ first[1].trace[Len(trace) + 1] = call
    /\ trace' = Append(trace, call)
    /\ UNCHANGED <<run, first, steps>>

TwiceEnterGroup(style) ==
    Logged([op |-> "enter", arg |-> style]) /\ EnterGroup(style)

TwiceExitGroup ==
    Logged([op |-> "exit", arg |-> None]) /\ LeaveGroup

TwiceWriteText(t) ==
    Logged([op |-> "write", arg |-> t]) /\ WriteText(t)

TwiceSetPrefix(value) ==
    Logged([op |-> "prefix", arg |-> value]) /\ SetPrefix(value)

\* the tree is walked: what the first writer came to is kept and the second
\* writer is constructed
SecondWriter ==
    /\ run = 1
    /\ pc = "idle"
    /\ group_stack = <<>>
    /\ trace # <<>>
    /\ run' = 2
    /\ first' = Some([trace |-> trace, out |-> out, chars_on_line |-> chars_on_line,
                      style_stack |-> style_stack])
    /\ trace' = <<>>
    /\ SetWriter(DisplayWriter_init(Writer, columns))
    /\ fed' = <<>>
    /\ prefix_sets' = 0
    /\ UNCHANGED <<pc, text, buf, group_stack, steps>>
    /\ UNCHANGED <<cvars, pvars, lvars>>

TwiceNext ==
    \/ \E style \in {None} \cup {Some(s) : s \in Styles} : TwiceEnterGroup(style)
    \/ TwiceExitGroup
    \/ \E t \in TreeTexts : TwiceWriteText(t)
    \/ WriteChar
    \/ WriteTextReturn
    \/ \E value \in Prefixes : TwiceSetPrefix(value)
    \/ SecondWriter

----------------------------------------------------------------------------
(* ConfigReader.  A file is a sequence of lines, each a sequence of         *)
(* characters without its final newline; readline gives the line with it.   *)

LowerLetters == <<"a", "b", "c", "d", "e", "f", "g", "h", "i", "j", "k", "l", "m",
                  "n", "o", "p", "q", "r", "s", "t", "u", "v", "w", "x", "y", "z">>

UpperLetters == <<"A", "B", "C", "D", "E", "F", "G", "H", "I", "J", "K", "L", "M",
                  "N", "O", "P", "Q", "R", "S", "T", "U", "V", "W", "X", "Y", "Z">>

DigitChars == <<"0", "1", "2", "3", "4", "5", "6", "7", "8", "9">>

Range(f) == {f[i] : i \in DOMAIN f}

\* \s of re and the characters str.strip() removes
IsSpace(c) == c \in {" ", "\t", "\n"}

RECURSIVE LStrip(_)
LStrip(s) == IF s # <<>> /\ IsSpace(Head(s)) THEN LStrip(Tail(s)) ELSE s

\* str.strip()
Strip(s) == Reverse(LStrip(Reverse(LStrip(s))))

\* the longest prefix of s whose characters are all in the set cls
RECURSIVE TakeWhile(_, _)
TakeWhile(s, cls) ==
    IF s # <<>> /\ Head(s) \in cls THEN <<Head(s)>> \o TakeWhile(Tail(s), cls) ELSE <<>>

DropFirst(s, n) == SubSeq(s, n + 1, Len(s))

\* comment_regex = '^([^#]*)#?': group 1 of its match
comment_regex(s) ==
    IF s # <<>> /\ \E i \in 1..Len(s) : s[i] = "#"
    THEN SubSeq(s, 1, (CHOOSE i \in 1..Len(s) : s[i] = "#" /\ \A j \in 1..(i - 1) : s[j] # "#") - 1)
    ELSE s

\* entry_regex = '^(\s|\t)*([a-z0-9_]+)(\s|\t)*=(.*)$': None, or groups 2 and 4
entry_regex(s) ==
    LET s1 == LStrip(s)
        key == TakeWhile(s1, Range(LowerLetters) \cup Range(DigitChars) \cup {"_"})
        s2 == LStrip(DropFirst(s1, Len(key)))
    IN  IF key # <<>> /\ s2 # <<>> /\ Head(s2) = "=" /\ "\n" \notin Range(Tail(s2))
        THEN Some([key |-> key, value |-> Tail(s2)])
        ELSE None

\* group_header_regex = '^\[([a-z_]+)\]$': None, or group 1
group_header_regex(s) ==
    IF /\ Len(s) >= 3 /\ s[1] = "[" /\ s[Len(s)] = "]"
       /\ \A i \in 2..(Len(s) - 1) : s[i] \in Range(LowerLetters) \cup {"_"}
    THEN Some(SubSeq(s, 2, Len(s) - 1))
    ELSE None

\* conf_file.readline(): the next line with its newline, '' at the end
readline(conf) == IF conf = <<>> THEN <<>> ELSE Append(Head(conf), "\n")

\* the line a comment-stripped, trimmed text is taken from
strip_comment(l) == Strip(comment_regex(l))

\* ConfigReader.read_line: the line read (None at the end) and the file after it
RECURSIVE read_line(_)
read_line(conf) ==
    IF readline(conf) = <<"\n">> THEN read_line(Tail(conf))
    ELSE IF readline(conf) = <<>> THEN [line |-> None, conf_file |-> conf]
    ELSE [line |-> Some(strip_comment(readline(conf))), conf_file |-> Tail(conf)]

EmptyMap == [k \in {} |-> <<>>]

MapSet(m, k, v) == [x \in DOMAIN m \cup {k} |-> IF x = k THEN v ELSE m[x]]

Raise(st, message, argument) ==
    [st EXCEPT !.rc_pc = "raised", !.raised = Some([message |-> message, argument |-> argument])]

\* mutant: a group that has no entries yet may be opened again
group_defined_nonempty(cfg, group) == group \in DOMAIN cfg /\ cfg[group] # EmptyMap

\* `current_group in config`
group_defined(cfg, group) == group \in DOMAIN cfg

\* mutant: the groups share one dict, so an entry shows in every group
store_entry_shared(cfg, group, key, value) ==
    [g \in DOMAIN cfg |-> MapSet(cfg[g], key, value)]

\* config[current_group][key] = value
store_entry(cfg, group, key, value) == MapSet(cfg, group, MapSet(cfg[group], key, value))

\* the group the entries after a header go to
open_group(st, group) == [st EXCEPT !.current_group = Some(group)]

Reader == [conf_file |-> conf_file, line |-> line, current_group |-> current_group,
           config |-> config, rc_pc |-> rc_pc, raised |-> raised]

\* read_config before its loop
read_config_start(st) ==
    LET r == read_line(st.conf_file)
    IN  [st EXCEPT !.line = r.line, !.conf_file = r.conf_file,
                   !.current_group = None, !.config = EmptyMap, !.rc_pc = "loop"]

\* one iteration of read_config's loop, st.line not being None
read_config_loop(st) ==
    LET l == st.line[1]
        entry_match == entry_regex(l)
        group_header_match == group_header_regex(l)
        r == read_line(st.conf_file)
        next(s1) == [s1 EXCEPT !.line = r.line, !.conf_file = r.conf_file]
    IN  IF entry_match # None
        THEN IF st.current_group = None
             THEN Raise(st, "Unexpected line in config", l)
             ELSE next([st EXCEPT !.config =
                            store_entry(@, st.current_group[1], entry_match[1].key,
                                        Strip(entry_match[1].value))])
        ELSE IF group_header_match # None
        THEN LET opened == open_group(st, group_header_match[1])
             IN  IF group_defined(st.config, opened.current_group[1])
                 THEN Raise(opened, "Group defined twice", opened.current_group[1])
                 ELSE next([opened EXCEPT !.config =
                                MapSet(@, opened.current_group[1], EmptyMap)])
        ELSE Raise(st, "Unparsable line in config", l)

\* the whole of read_config on a reader about to start
RECURSIVE read_config_run(_)
read_config_run(st) ==
    IF st.rc_pc = "start" THEN read_config_run(read_config_start(st))
    ELSE IF st.rc_pc = "loop"
         THEN IF st.line = None THEN [st EXCEPT !.rc_pc = "returned"]
              ELSE read_config_run(read_config_loop(st))
    ELSE st

NewReader(f) == [conf_file |-> f, line |-> None, current_group |-> None,
                 config |-> EmptyMap, rc_pc |-> "start", raised |-> None]

----------------------------------------------------------------------------
(* The reader as a state machine *)

\* config files, by the lines they are made of
ConfigFiles ==
    SeqsUpTo(
    { <<>>,                                   \* an empty line
      <<"[", "s", "]">>,
      <<"[", "t", "]">>,
      <<"[", "s", "]", " ", "#", "c">>,       \* a header and a comment
      <<"k", "=", "v">>,
      <<"k", " ", "=", " ", "w", " ">>,
      <<"j", "=">>,
      <<"#", " ", "c">>,                      \* a comment alone
      <<" ">>,                                \* white space alone
      <<"v">> },                              \* neither an entry nor a header
    MaxLines)

SetReader(st) ==
    /\ conf_file' = st.conf_file
    /\ line' = st.line
    /\ current_group' = st.current_group
    /\ config' = st.config
    /\ rc_pc' = st.rc_pc
    /\ raised' = st.raised
    /\ UNCHANGED file

ReaderInit(f) ==
    /\ file = f
    /\ conf_file = f
    /\ line = None
    /\ current_group = None
    /\ config = EmptyMap
    /\ rc_pc = "start"
    /\ raised = None

ReadConfigStart ==
    /\ rc_pc = "start"
    /\ SetReader(read_config_start(Reader))
    /\ UNCHANGED <<wvars, pvars, lvars, tvars>>

ReadConfigLoop ==
    /\ rc_pc = "loop"
    /\ line # None
    /\ SetReader(read_config_loop(Reader))
    /\ UNCHANGED <<wvars, pvars, lvars, tvars>>

ReadConfigReturn ==
    /\ rc_pc = "loop"
    /\ line = None
    /\ SetReader([Reader EXCEPT !.rc_pc = "returned"])
    /\ UNCHANGED <<wvars, pvars, lvars, tvars>>

ConfigNext == ReadConfigStart \/ ReadConfigLoop \/ ReadConfigReturn

----------------------------------------------------------------------------
(* StyleParser *)

W_clear == <<"c", "l", "e", "a", "r">>
W_bold == <<"b", "o", "l", "d">>
W_italic == <<"i", "t", "a", "l", "i", "c">>
W_underline == <<"u", "n", "d", "e", "r", "l", "i", "n", "e">>
W_inverse == <<"i", "n", "v", "e", "r", "s", "e">>
W_faint == <<"f", "a", "i", "n", "t">>

\* StyleParser.simple_styles: None, or the style of a key
simple_styles(key) ==
    CASE key = W_clear -> Some(ClearStyle)
      [] key = W_bold -> Some(BoldStyle)
      [] key = W_italic -> Some(ItalicStyle)
      [] key = W_underline -> Some(UnderlineStyle)
      [] key = W_inverse -> Some(InverseStyle)
      [] key = W_faint -> Some(FaintStyle)
      [] OTHER -> None

\* str.split(','): the parts between the commas, at least one
RECURSIVE split(_)
split(s) ==
    IF \E i \in 1..Len(s) : s[i] = ","
    THEN LET i == CHOOSE i \in 1..Len(s) : s[i] = "," /\ \A j \in 1..(i - 1) : s[j] # ","
         IN  <<SubSeq(s, 1, i - 1)>> \o split(SubSeq(s, i + 1, Len(s)))
    ELSE <<s>>

\* str.lower()
lower(s) ==
    [i \in 1..Len(s) |->
        IF \E k \in 1..26 : UpperLetters[k] = s[i]
        THEN LowerLetters[CHOOSE k \in 1..26 : UpperLetters[k] = s[i]]
        ELSE s[i]]

\* mutant: the token is lower-cased but not trimmed
normalise_no_strip(style_str) == lower(style_str)

\* style_str.lower().strip()
normalise(style_str) == Strip(lower(style_str))

\* int() of a string of decimal digits
RECURSIVE int(_)
int(ds) ==
    IF ds = <<>> THEN 0
    ELSE int(SubSeq(ds, 1, Len(ds) - 1)) * 10
         + ((CHOOSE k \in 1..10 : DigitChars[k] = ds[Len(ds)]) - 1)

\* colour_style_regex = '^(f|b)gcolour\((\d{1,3})\)$': None, or groups 1 and 2
colour_style_regex(s) ==
    LET digits == TakeWhile(DropFirst(s, 9), Range(DigitChars))
    IN  IF /\ Len(s) >= 11
           /\ s[1] \in {"f", "b"}
           /\ SubSeq(s, 2, 9) = <<"g", "c", "o", "l", "o", "u", "r", "(">>
           /\ Len(digits) \in 1..3
           /\ DropFirst(s, 9 + Len(digits)) = <<")">>
        THEN Some([ground |-> s[1], code |-> digits])
        ELSE None

\* mutant: the style goes to the front of the list
add_style_front(list, style) == <<style>> \o list

\* styles.append(style)
add_style(list, style) == Append(list, style)

Parser == [styles_str |-> styles_str, tokens |-> tokens, styles |-> styles,
           sp_pc |-> sp_pc, sp_result |-> sp_result, sp_raised |-> sp_raised]

\* parse before its loop
parse_start(st) ==
    [st EXCEPT !.styles = <<>>, !.tokens = split(st.styles_str), !.sp_pc = "loop"]

\* one iteration of parse's loop
parse_token(st) ==
    LET style_str == normalise(Head(st.tokens))
        colour_match == colour_style_regex(style_str)
        rest == [st EXCEPT !.tokens = Tail(@)]
    IN  IF simple_styles(style_str) # None
        THEN [rest EXCEPT !.styles = add_style(@, simple_styles(style_str)[1])]
        ELSE IF colour_match = None
        THEN [st EXCEPT !.sp_pc = "raised",
                        !.sp_raised = Some([message |-> "Unknown style identifier",
                                            argument |-> style_str])]
        ELSE IF colour_match[1].ground = "f"
        THEN [rest EXCEPT !.styles =
                add_style(@, ForegroundColourStyle(int(colour_match[1].code)))]
        ELSE [rest EXCEPT !.styles =
                add_style(@, BackgroundColourStyle(int(colour_match[1].code)))]

\* parse after its loop
parse_return(st) ==
    [st EXCEPT !.sp_pc = "returned",
               !.sp_result =
                   IF Len(st.styles) = 0 THEN Some(CompositeStyle(<<>>))
                   ELSE IF Len(st.styles) = 1 THEN Some(st.styles[1])
                   ELSE Some(CompositeStyle(st.styles))]

----------------------------------------------------------------------------
(* The parser as a state machine *)

\* tokens as descriptors are written: padded, capitalised, misspelt, too long
T_Bold == <<" ", "B", "o", "l", "d">>
T_fg208 == <<" ", "f", "g", "c", "o", "l", "o", "u", "r", "(", "2", "0", "8", ")">>
T_BG7 == <<"B", "G", "C", "O", "L", "O", "U", "R", "(", "7", ")", " ">>
T_underilne == <<"u", "n", "d", "e", "r", "i", "l", "n", "e">>
T_Underilne == <<" ", "U", "n", "d", "e", "r", "i", "l", "n", "e">>
T_fg2080 == <<"f", "g", "c", "o", "l", "o", "u", "r", "(", "2", "0", "8", "0", ")">>

\* the tokens joined by commas
RECURSIVE Join(_)
Join(ts) ==
    IF Len(ts) = 1 THEN ts[1] ELSE ts[1] \o <<",">> \o Join(Tail(ts))

\* descriptors, by the tokens they are written with (one of them empty)
Descriptors ==
    UNION {[1..n -> {W_bold, T_Bold, W_italic, T_fg208, T_BG7, T_underilne,
                     T_Underilne, T_fg2080, <<>>}] : n \in 1..MaxTokens}

SetParser(st) ==
    /\ styles_str' = st.styles_str
    /\ tokens' = st.tokens
    /\ styles' = st.styles
    /\ sp_pc' = st.sp_pc
    /\ sp_result' = st.sp_result
    /\ sp_raised' = st.sp_raised
    /\ UNCHANGED raw_tokens

ParserInit(raw) ==
    /\ raw_tokens = raw
    /\ styles_str = Join(raw)
    /\ tokens = <<>>
    /\ styles = <<>>
    /\ sp_pc = "start"
    /\ sp_result = None
    /\ sp_raised = None

ParseStart ==
    /\ sp_pc = "start"
    /\ SetParser(parse_start(Parser))
    /\ UNCHANGED <<wvars, cvars, lvars, tvars>>

ParseToken ==
    /\ sp_pc = "loop"
    /\ tokens # <<>>
    /\ SetParser(parse_token(Parser))
    /\ UNCHANGED <<wvars, cvars, lvars, tvars>>

ParseReturn ==
    /\ sp_pc = "loop"
    /\ tokens = <<>>
    /\ SetParser(parse_return(Parser))
    /\ UNCHANGED <<wvars, cvars, lvars, tvars>>

ParseNext == ParseStart \/ ParseToken \/ ParseReturn

----------------------------------------------------------------------------
(* StylesConfig, FormattingConfig and Config.load *)

K_heading_base == <<"h", "e", "a", "d", "i", "n", "g", "_", "b", "a", "s", "e">>
K_heading1 == <<"h", "e", "a", "d", "i", "n", "g", "1">>
K_heading2 == <<"h", "e", "a", "d", "i", "n", "g", "2">>
K_heading3 == <<"h", "e", "a", "d", "i", "n", "g", "3">>
K_heading4 == <<"h", "e", "a", "d", "i", "n", "g", "4">>
K_heading5 == <<"h", "e", "a", "d", "i", "n", "g", "5">>
K_heading6 == <<"h", "e", "a", "d", "i", "n", "g", "6">>
K_strong == <<"s", "t", "r", "o", "n", "g">>
K_emphasis == <<"e", "m", "p", "h", "a", "s", "i", "s">>
K_inline_code == <<"i", "n", "l", "i", "n", "e", "_", "c", "o", "d", "e">>
K_link == <<"l", "i", "n", "k">>
K_link_index == <<"l", "i", "n", "k", "_", "i", "n", "d", "e", "x">>
K_link_hint == <<"l", "i", "n", "k", "_", "h", "i", "n", "t">>
K_list_bullet == <<"l", "i", "s", "t", "_", "b", "u", "l", "l", "e", "t">>
K_list_number == <<"l", "i", "s", "t", "_", "n", "u", "m", "b", "e", "r">>
K_paragraph == <<"p", "a", "r", "a", "g", "r", "a", "p", "h">>

G_styles == <<"s", "t", "y", "l", "e", "s">>
G_formatting == <<"f", "o", "r", "m", "a", "t", "t", "i", "n", "g">>

\* the roles in the order StylesConfig.__init__ reads them
Roles ==
    <<K_heading_base, K_heading1, K_heading2, K_heading3, K_heading4, K_heading5,
      K_heading6, K_strong, K_emphasis, K_inline_code, K_link, K_link_index,
      K_link_hint, K_list_bullet, K_list_number, K_paragraph>>

\* del config[key]
MapDel(m, k) == [x \in DOMAIN m \ {k} |-> m[x]]

\* StyleParser.parse as a whole
RECURSIVE parse_loop(_)
parse_loop(st) ==
    IF st.sp_pc = "loop"
    THEN IF st.tokens = <<>> THEN parse_return(st) ELSE parse_loop(parse_token(st))
    ELSE st

parse(str) ==
    parse_loop(parse_start([styles_str |-> str, tokens |-> <<>>, styles |-> <<>>,
                            sp_pc |-> "start", sp_result |-> None, sp_raised |-> None]))

\* mutant: the key stays in the map after it is read
parse_style_keep(cfg, key, default) ==
    IF key \notin DOMAIN cfg
    THEN [config |-> cfg, value |-> default, raised |-> None]
    ELSE [config |-> cfg, value |-> parse(cfg[key]).sp_result,
          raised |-> parse(cfg[key]).sp_raised]

\* mutant: a key that is not in the map gives None, not the default
parse_style_no_default(cfg, key, default) ==
    IF key \notin DOMAIN cfg
    THEN [config |-> cfg, value |-> None, raised |-> None]
    ELSE [config |-> MapDel(cfg, key), value |-> parse(cfg[key]).sp_result,
          raised |-> parse(cfg[key]).sp_raised]

\* StylesConfig.parse_style: the map after it, the value (None or a Style),
\* and the exception of the parser if any
parse_style(cfg, key, default) ==
    IF key \notin DOMAIN cfg
    THEN [config |-> cfg, value |-> default, raised |-> None]
    ELSE [config |-> MapDel(cfg, key), value |-> parse(cfg[key]).sp_result,
          raised |-> parse(cfg[key]).sp_raised]

\* the default StylesConfig.__init__ passes for a role, given the roles read
\* before it
role_default(role, values) ==
    CASE role = K_heading_base ->
            Some(CompositeStyle(<<ClearStyle, BoldStyle, ForegroundColourStyle(208)>>))
      [] role \in {K_heading3, K_heading4, K_heading5, K_heading6} -> Some(FaintStyle)
      [] role = K_strong -> Some(BoldStyle)
      [] role = K_emphasis -> Some(ItalicStyle)
      [] role = K_inline_code ->
            Some(CompositeStyle(<<ClearStyle, ForegroundColourStyle(196),
                                  BackgroundColourStyle(52)>>))
      [] role = K_link -> Some(CompositeStyle(<<UnderlineStyle, ForegroundColourStyle(82)>>))
      [] role = K_link_index -> Some(ForegroundColourStyle(82))
      [] role = K_link_hint -> Some(ForegroundColourStyle(240))
      [] role = K_list_bullet -> Some(ForegroundColourStyle(208))
      [] role = K_list_number -> values[K_list_bullet]
      [] OTHER -> None

\* the parse_style calls of StylesConfig.__init__, in order, up to the first
\* exception
RECURSIVE styles_roles(_, _)
styles_roles(roles, st) ==
    IF roles = <<>> \/ st.raised # None THEN st
    ELSE LET r == parse_style(st.config, Head(roles), role_default(Head(roles), st.values))
         IN  styles_roles(Tail(roles),
                          [config |-> r.config,
                           values |-> MapSet(st.values, Head(roles), r.value),
                           raised |-> r.raised])

\* a value that may be None, as an argument
Unwrap(v) == IF v = None THEN None ELSE v[1]

\* the attributes of a StylesConfig whose roles have the values given
styles_object(values) ==
    [heading_base |-> Unwrap(values[K_heading_base]),
     headings |->
        [i \in 1..6 |->
            CompositeStyle(<<Unwrap(values[K_heading_base]), Unwrap(values[Roles[i + 1]])>>)],
     strong |-> Unwrap(values[K_strong]),
     emphasis |-> Unwrap(values[K_emphasis]),
     inline_code |-> Unwrap(values[K_inline_code]),
     link |-> Unwrap(values[K_link]),
     link_index |-> Unwrap(values[K_link_index]),
     link_hint |-> Unwrap(values[K_link_hint]),
     list_bullet |-> Unwrap(values[K_list_bullet]),
     list_number |-> Unwrap(values[K_list_number]),
     paragraph |-> Unwrap(values[K_paragraph])]

\* StylesConfig.__init__ up to its final loop: the keys left in the map, the
\* object, and the exception of the parser if any
StylesConfig(cfg) ==
    LET st == styles_roles(Roles, [config |-> cfg, values |-> EmptyMap, raised |-> None])
    IN  [config |-> st.config,
         raised |-> st.raised,
         object |-> IF st.raised = None THEN Some(styles_object(st.values)) ELSE None]

\* mutant: the settings of the formatting section are not looked at
FormattingConfig_lenient(cfg) == {}

\* FormattingConfig.__init__: the keys its loop may raise on
FormattingConfig(cfg) == DOMAIN cfg

Loader == [ld_exists |-> ld_exists, ld_file |-> ld_file, ld_pc |-> ld_pc,
           ld_config |-> ld_config, sc_input |-> sc_input, loaded |-> loaded,
           ld_raised |-> ld_raised]

\* Config.load when there is no file at path: every class without arguments
load_missing(st) ==
    [st EXCEPT !.ld_pc = "done",
               !.loaded = MapSet(MapSet(@, "styles", StylesConfig(EmptyMap).object[1]),
                                 "formatting", "FormattingConfig")]

\* Config.load: the file is opened and read
load_read(st) ==
    LET r == read_config_run(NewReader(st.ld_file))
    IN  IF r.rc_pc = "raised"
        THEN [st EXCEPT !.ld_pc = "raised", !.ld_raised = r.raised]
        ELSE [st EXCEPT !.ld_pc = "styles", !.ld_config = r.config]

\* Config.load: the iteration of its last loop for 'styles'; key is the key
\* the final loop of StylesConfig.__init__ comes to first, if any is left
load_styles(st, key) ==
    LET given == G_styles \in DOMAIN st.ld_config
        r == StylesConfig(IF given THEN st.ld_config[G_styles] ELSE EmptyMap)
        seen == [st EXCEPT !.sc_input = IF given THEN Some(st.ld_config[G_styles]) ELSE None,
                           !.ld_config = IF given THEN MapSet(@, G_styles, r.config) ELSE @]
    IN  IF r.raised # None
        THEN [seen EXCEPT !.ld_pc = "raised", !.ld_raised = r.raised]
        ELSE IF key # None
        THEN [seen EXCEPT !.ld_pc = "raised",
                          !.ld_raised = Some([message |-> "Unknown setting in styles section",
                                              argument |-> key[1]])]
        ELSE [seen EXCEPT !.ld_pc = "formatting",
                          !.loaded = MapSet(@, "styles", r.object[1])]

\* Config.load: the iteration of its last loop for 'formatting'
load_formatting(st, key) ==
    IF key # None
    THEN [st EXCEPT !.ld_pc = "raised",
                    !.ld_raised = Some([message |-> "Unknown setting in formatting section",
                                        argument |-> key[1]])]
    ELSE [st EXCEPT !.ld_pc = "done", !.loaded = MapSet(@, "formatting", "FormattingConfig")]

----------------------------------------------------------------------------
(* Config.load as a state machine *)

LL_styles == <<"[", "s", "t", "y", "l", "e", "s", "]">>
LL_formatting == <<"[", "f", "o", "r", "m", "a", "t", "t", "i", "n", "g", "]">>
LL_style == <<"[", "s", "t", "y", "l", "e", "]">>
LL_strong ==
    <<"s", "t", "r", "o", "n", "g", " ", "=", " ", "i", "t", "a", "l", "i",
      "c">>
LL_foo == <<"f", "o", "o", " ", "=", " ", "b", "a", "r">>
LL_link == <<"l", "i", "n", "k", " ", "=", " ", "x">>

\* the files loaded, by the lines they are made of
LoadFiles ==
    SeqsUpTo({LL_styles, LL_formatting, LL_style, LL_strong, LL_foo, LL_link}, MaxLines)

SetLoader(st) ==
    /\ ld_pc' = st.ld_pc
    /\ ld_config' = st.ld_config
    /\ sc_input' = st.sc_input
    /\ loaded' = st.loaded
    /\ ld_raised' = st.ld_raised
    /\ UNCHANGED <<ld_exists, ld_file>>

LoaderInit(exists, f) ==
    /\ ld_exists = exists
    /\ ld_file = f
    /\ ld_pc = "start"
    /\ ld_config = EmptyMap
    /\ sc_input = None
    /\ loaded = EmptyMap
    /\ ld_raised = None

LoadMissing ==
    /\ ld_pc = "start"
    /\ ~ld_exists
    /\ SetLoader(load_missing(Loader))
    /\ UNCHANGED <<wvars, cvars, pvars, tvars>>

LoadRead ==
    /\ ld_pc = "start"
    /\ ld_exists
    /\ SetLoader(load_read(Loader))
    /\ UNCHANGED <<wvars, cvars, pvars, tvars>>

\* the keys a loop `for key in config: raise` may come to first
FirstKeys(keys) == IF keys = {} THEN {None} ELSE {Some(k) : k \in keys}

LoadStyles ==
    /\ ld_pc = "styles"
    /\ \E key \in FirstKeys(DOMAIN StylesConfig(IF G_styles \in DOMAIN ld_config
                                                 THEN ld_config[G_styles]
                                                 ELSE EmptyMap).config) :
          SetLoader(load_styles(Loader, key))
    /\ UNCHANGED <<wvars, cvars, pvars, tvars>>

LoadFormatting ==
    /\ ld_pc = "formatting"
    /\ \E key \in FirstKeys(FormattingConfig(IF G_formatting \in DOMAIN ld_config
                                              THEN ld_config[G_formatting]
                                              ELSE EmptyMap)) :
          SetLoader(load_formatting(Loader, key))
    /\ UNCHANGED <<wvars, cvars, pvars, tvars>>

LoadNext == LoadMissing \/ LoadRead \/ LoadStyles \/ LoadFormatting

ConfigInit ==
    /\ columns = 1
    /\ WriterInit
    /\ \E f \in ConfigFiles : ReaderInit(f)
    /\ ParserInit(<< <<>> >>)
    /\ LoaderInit(FALSE, <<>>)
    /\ TwiceVarsInit

\* The configuration reader on a file
SpecConfig == ConfigInit /\ [][ConfigNext]_vars

\* The wrapping writer fed strings
Init ==
    /\ columns \in (1..MaxColumns) \cup {LoremColumns}
    /\ WriterInit
    /\ ReaderInit(<<>>)
    /\ ParserInit(<< <<>> >>)
    /\ LoaderInit(FALSE, <<>>)
    /\ TwiceVarsInit

Spec == Init /\ [][WrapNext]_vars

\* The writer walking styled trees
TreeInit ==
    /\ columns \in 1..MaxColumns
    /\ WriterInit
    /\ ReaderInit(<<>>)
    /\ ParserInit(<< <<>> >>)
    /\ LoaderInit(FALSE, <<>>)
    /\ TwiceVarsInit

SpecTree == TreeInit /\ [][TreeNext]_vars

\* The style parser on a descriptor
ParseInit ==
    /\ columns = 1
    /\ WriterInit
    /\ ReaderInit(<<>>)
    /\ \E raw \in Descriptors : ParserInit(raw)
    /\ LoaderInit(FALSE, <<>>)
    /\ TwiceVarsInit

SpecParse == ParseInit /\ [][ParseNext]_vars

\* Config.load on a path without a file, or with one
LoadInit ==
    /\ columns = 1
    /\ WriterInit
    /\ ReaderInit(<<>>)
    /\ ParserInit(<< <<>> >>)
    /\ \/ LoaderInit(FALSE, <<>>)
       \/ \E f \in LoadFiles : LoaderInit(TRUE, f)
    /\ TwiceVarsInit

SpecLoad == LoadInit /\ [][LoadNext]_vars

\* two writers with the same columns
TwiceInit ==
    /\ columns \in 1..MaxColumns
    /\ WriterInit
    /\ ReaderInit(<<>>)
    /\ ParserInit(<< <<>> >>)
    /\ LoaderInit(FALSE, <<>>)
    /\ TwiceVarsInit

SpecTwice == TwiceInit /\ [][TwiceNext]_vars

----------------------------------------------------------------------------
(* What the claims speak of *)

\* a body or prefix character that takes a column (no escape token, no control)
TakesColumn(tok) == tok \notin EscapeTokens /\ IsPrintable(tok)

\* the printable length of the longest line of a sink, lines ending at "\n"
RECURSIVE LongestFrom(_, _, _)
LongestFrom(s, cur, best) ==
    IF s = <<>> THEN (IF cur > best THEN cur ELSE best)
    ELSE IF Head(s) = "\n"
         THEN LongestFrom(Tail(s), 0, IF cur > best THEN cur ELSE best)
         ELSE LongestFrom(Tail(s), cur + (IF TakesColumn(Head(s)) THEN 1 ELSE 0), best)

LongestLine(s) == LongestFrom(s, 0, 0)

\* the printable length of the longest token of an input, tokens ending at a
\* space or a newline
RECURSIVE LongestTokenFrom(_, _, _)
LongestTokenFrom(s, cur, best) ==
    IF s = <<>> THEN (IF cur > best THEN cur ELSE best)
    ELSE IF Head(s) \in {" ", "\n"}
         THEN LongestTokenFrom(Tail(s), 0, IF cur > best THEN cur ELSE best)
         ELSE LongestTokenFrom(Tail(s), cur + (IF IsPrintable(Head(s)) THEN 1 ELSE 0), best)

LongestToken(s) == LongestTokenFrom(s, 0, 0)

Count(s, x) == Cardinality({i \in 1..Len(s) : s[i] = x})

\* the escape tokens of a stack of simple styles, bottom to top
StackEscapes(stack) ==
    [i \in 1..Len(stack) |->
        CASE stack[i].kind = "bold" -> "<bold>"
          [] stack[i].kind = "italic" -> "<italic>"
          [] stack[i].kind = "clear" -> "<clear>"]

\* what follows a line break in the sink: nothing without a prefix, else
\* Clear, the prefix, Clear and the styles of the stack
AfterBreak(pfx, stack) ==
    IF pfx = <<>> THEN <<>>
    ELSE <<"<clear>">> \o pfx \o <<"<clear>">> \o StackEscapes(stack)

\* the index of the last space of a buffer that holds one
LastSpace(b) ==
    CHOOSE i \in 1..Len(b) : b[i] = " " /\ \A j \in (i + 1)..Len(b) : b[j] # " "

\* the next character of the running call overflows the line
Overflows ==
    /\ pc = "loop" /\ text # <<>> /\ Head(text) # "\n"
    /\ columns - (prefix_printable_length % columns)
         - (chars_on_line + (IF IsPrintable(Head(text)) THEN 1 ELSE 0)) < 0

----------------------------------------------------------------------------
(* C1 *)

\* the prefix is empty, or was assigned once, before anything was written,
\* and is shorter than the line
PrefixFits ==
    \/ prefix_sets = 0
    \/ /\ prefix_sets = 1
       /\ prefix_printable_length < columns
       /\ \/ prefix = <<>>
          \/ Len(out) > Len(prefix) /\ SubSeq(out, 1, 1 + Len(prefix)) = <<"<clear>">> \o prefix

\* C1: wrap invariant: when no space-delimited token of the strings fed is
\* longer than columns (the prefix empty, or shorter than columns and counted
\* as part of the line), every line in the sink has printable length <= columns.
C1_WrapInvariant ==
    (LongestToken(fed) <= columns /\ PrefixFits) => LongestLine(out) <= columns

----------------------------------------------------------------------------
(* C2 *)

LoremLines == <<"l", "o", "r", "e", "m", "\n", "i", "p", "s", "u", "m", "\n",
                "d", "o", "l", "o", "r">>

C2_BreakStep ==
    (Overflows /\ " " \in {Append(buf, Head(text))[i] : i \in 1..(Len(buf) + 1)})
    => LET b == Append(buf, Head(text))
           i == LastSpace(b)
       IN  /\ out' = out \o SubSeq(b, 1, i - 1) \o <<"\n">> \o AfterBreak(prefix, style_stack)
           /\ buf' = SubSeq(b, i + 1, Len(b))

C2_Scenario ==
    (columns = LoremColumns /\ fed = Lorem /\ prefix_sets = 0 /\ pc = "idle")
    => out = LoremLines

\* C2: space-based break: when a character makes available_line_space negative
\* and the buffer holds a space, write_text flushes the buffer up to the last
\* space, emits one line break, drops that space and carries what follows it;
\* with columns = 6 and no prefix "lorem ipsum dolor" gives lorem / ipsum / dolor.
C2_SpaceBreak == [][C2_BreakStep]_vars /\ []C2_Scenario

\* the scenario has run: two space-based breaks, each dropping its space
C2_Witness ==
    /\ columns = LoremColumns /\ fed = Lorem /\ pc = "idle" /\ prefix_sets = 0
    /\ out = LoremLines

\* a break chosen among the two spaces of a buffer has happened
C2_TwoSpaces ==
    /\ columns = 2 /\ fed = <<"a", " ", " ">> /\ pc = "idle" /\ prefix = <<>>
    /\ out = <<"a", " ", "\n">>

----------------------------------------------------------------------------
(* C3 *)

\* the tree Text("a\na", style=Bold) has been written by a fresh writer
\* with no prefix
BoldNewlineScenario ==
    /\ steps = 2 /\ prefix_sets = 0 /\ fed = <<"a", "\n", "a">>
    /\ pc = "idle" /\ group_stack = <<>>
    /\ Len(out) >= 2 /\ out[1] = "<bold>" /\ out[2] = "a"

\* C3 as stated: across a literal newline inside a Bold group the sink gets
\* Bold, the text before, Clear, the line break, Bold again, the text after
\* and Clear on group exit.
C3_ClearBeforeBreak ==
    BoldNewlineScenario
    => out = <<"<bold>", "a", "<clear>", "\n", "<bold>", "a", "<clear>">>

C3_NewlineStep ==
    (pc = "loop" /\ text # <<>> /\ Head(text) = "\n")
    => /\ out' = out \o buf \o <<"\n">> \o AfterBreak(prefix, style_stack)
       /\ style_stack' = style_stack

C3_Scenario ==
    BoldNewlineScenario => out = <<"<bold>", "a", "\n", "a", "<clear>">>

\* C3 amended: a literal newline sends the pending text and the line break
\* with no Clear before it; after the break nothing is sent when the prefix
\* is empty (the style stays on), and with a prefix Clear, the prefix, Clear
\* and the styles of the stack; a Bold group around "a\na" gives
\* Bold, a, line break, a, Clear.
C3_StyleAcrossBreak == [][C3_NewlineStep]_vars /\ []C3_Scenario

\* the scenario has run
C3_Witness ==
    BoldNewlineScenario /\ out = <<"<bold>", "a", "\n", "a", "<clear>">>

\* the same tree under a prefix, before the group is left
C3_WithPrefix ==
    /\ prefix = <<">">> /\ style_stack = <<BoldStyle>> /\ pc = "idle"
    /\ out = <<"<clear>", ">", "<clear>", "<bold>", "a", "\n",
               "<clear>", ">", "<clear>", "<bold>", "a">>

----------------------------------------------------------------------------
(* C4 *)

\* the walk enters a group carrying style[1], or leaves the innermost group
EntersStyled(style) ==
    pc = "idle" /\ group_stack' = Append(group_stack, Some(style))

LeavesStyled ==
    /\ pc = "idle" /\ group_stack # <<>>
    /\ group_stack' = SubSeq(group_stack, 1, Len(group_stack) - 1)
    /\ group_stack[Len(group_stack)] # None

C4_GroupStep ==
    /\ \A style \in Styles :
         EntersStyled(style)
         => /\ out' = out \o StackEscapes(<<style>>)
            /\ style_stack' = Append(style_stack, style)
    /\ LeavesStyled
       => /\ style_stack # <<>>
          /\ style_stack[Len(style_stack)] = group_stack[Len(group_stack)][1]
          /\ style_stack' = SubSeq(style_stack, 1, Len(style_stack) - 1)
          /\ out' = out \o <<"<clear>">> \o StackEscapes(style_stack')

\* C4: a styled group sends its style's escape on entry, then its children's
\* output, and on exit Clear followed by the escape of every style left on
\* the stack, bottom to top, at every depth.
C4_GroupBrackets == [][C4_GroupStep]_vars

\* an inner styled group has been left with two styles remaining
C4_Witness ==
    /\ Len(group_stack) = 2 /\ Len(style_stack) = 2 /\ steps = 3
    /\ prefix = <<>> /\ fed = <<>>
    /\ Len(out) = 6
    /\ SubSeq(out, 4, 6) = <<"<clear>">> \o StackEscapes(style_stack)

----------------------------------------------------------------------------
(* C5 *)

\* a line with nothing but white space before its comment or its end
BlankLine(l) ==
    \A i \in 1..Len(l) : (\A j \in 1..(i - 1) : l[j] # "#") => (IsSpace(l[i]) \/ l[i] = "#")

RemoveAt(s, i) == SubSeq(s, 1, i - 1) \o SubSeq(s, i + 1, Len(s))

\* what read_config gives its caller: the map returned, or the exception
Outcome(st) ==
    [returned |-> st.rc_pc = "returned",
     config |-> IF st.rc_pc = "returned" THEN st.config ELSE EmptyMap,
     raised |-> st.raised]

ReaderDone == rc_pc \in {"returned", "raised"}

\* C5: a line that is blank after comment stripping (a comment alone, white
\* space alone), wherever it stands, causes no error and leaves the result of
\* read_config the same as for the file without that line.
C5_BlankLinesSkipped ==
    ReaderDone
    => \A i \in 1..Len(file) :
          BlankLine(file[i])
          => Outcome(Reader) = Outcome(read_config_run(NewReader(RemoveAt(file, i))))

----------------------------------------------------------------------------
(* C9 and C10 *)

\* the lines of the file before the one read_config is looking at
LinesBefore == SubSeq(file, 1, Len(file) - Len(conf_file) - 1)

\* the names of the group headers among lines, in order
RECURSIVE HeaderNames(_)
HeaderNames(ls) ==
    IF ls = <<>> THEN <<>>
    ELSE LET h == group_header_regex(strip_comment(Head(ls)))
         IN  (IF h = None THEN <<>> ELSE <<h[1]>>) \o HeaderNames(Tail(ls))

LooksAtHeader == rc_pc = "loop" /\ line # None /\ group_header_regex(line[1]) # None

LooksAtEntry == rc_pc = "loop" /\ line # None /\ entry_regex(line[1]) # None

C9_Step ==
    (LooksAtHeader /\ group_header_regex(line[1])[1] \in Range(HeaderNames(LinesBefore)))
    => /\ rc_pc' = "raised"
       /\ raised' = Some([message |-> "Group defined twice",
                          argument |-> group_header_regex(line[1])[1]])

C9_NoMap ==
    rc_pc = "returned"
    => \A i, j \in 1..Len(HeaderNames(file)) :
          i # j => HeaderNames(file)[i] # HeaderNames(file)[j]

\* C9: when read_config comes to a group header naming a group opened
\* earlier in the file, whatever came between and even if that group has no
\* entries, it raises 'Group defined twice'; no map is returned for a file
\* with two headers of one name.
C9_DuplicateGroup == [][C9_Step]_vars /\ []C9_NoMap

\* the second [s] was reached after another group, the first [s] being empty
C9_Witness ==
    /\ file = << <<"[", "s", "]">>, <<"[", "t", "]">>, <<"[", "s", "]", " ", "#", "c">> >>
    /\ rc_pc = "raised"
    /\ raised = Some([message |-> "Group defined twice", argument |-> <<"s">>])
    /\ config[<<"s">>] = EmptyMap

C10_Step ==
    LooksAtEntry
    => LET e == entry_regex(line[1])[1]
           opened == HeaderNames(LinesBefore)
       IN  IF opened = <<>>
           THEN /\ rc_pc' = "raised"
                /\ raised' = Some([message |-> "Unexpected line in config",
                                   argument |-> line[1]])
                /\ config' = config
           ELSE LET latest == opened[Len(opened)]
                IN  /\ rc_pc' = "loop"
                    /\ DOMAIN config' = DOMAIN config
                    /\ \A g \in DOMAIN config : g # latest => config'[g] = config[g]
                    /\ DOMAIN config'[latest] = DOMAIN config[latest] \cup {e.key}
                    /\ config'[latest][e.key] = Strip(e.value)
                    /\ \A k \in DOMAIN config[latest] :
                          k # e.key => config'[latest][k] = config[latest][k]

\* every key of the map is the name of a group header of the file
C10_InGroups == DOMAIN config \subseteq Range(HeaderNames(file))

\* C10: an entry line met before any group header raises 'Unexpected line in
\* config' and nothing is ever stored outside a group; once a group is open
\* an entry is stored under the group opened last, and only there.
C10_EntriesInGroups == [][C10_Step]_vars /\ []C10_InGroups

\* an entry before any header has been refused
C10_Witness ==
    /\ file = << <<>>, <<"k", "=", "v">>, <<"[", "s", "]">> >>
    /\ rc_pc = "raised"
    /\ raised = Some([message |-> "Unexpected line in config",
                      argument |-> <<"k", "=", "v">>])

\* an entry has gone to the second of two groups
C10_LatestGroup ==
    /\ file = << <<"[", "s", "]">>, <<"[", "t", "]">>, <<"k", " ", "=", " ", "w", " ">> >>
    /\ rc_pc = "returned"
    /\ config[<<"s">>] = EmptyMap
    /\ config[<<"t">>] = MapSet(EmptyMap, <<"k">>, <<"w">>)

----------------------------------------------------------------------------
(* StyleParser.parse *)

\* what a token as written stands for: None, or its Style
Meaning(raw) ==
    CASE raw = W_bold -> Some(BoldStyle)
      [] raw = T_Bold -> Some(BoldStyle)
      [] raw = W_italic -> Some(ItalicStyle)
      [] raw = T_fg208 -> Some(ForegroundColourStyle(208))
      [] raw = T_BG7 -> Some(BackgroundColourStyle(7))
      [] OTHER -> None

\* a token as written with its surrounding white space removed, in lower case
Trimmed(raw) ==
    CASE raw = T_Underilne -> T_underilne
      [] OTHER -> raw

AllValid == \A i \in 1..Len(raw_tokens) : Meaning(raw_tokens[i]) # None

FirstInvalid ==
    CHOOSE i \in 1..Len(raw_tokens) :
        /\ Meaning(raw_tokens[i]) = None
        /\ \A j \in 1..(i - 1) : Meaning(raw_tokens[j]) # None

ParseDone == sp_pc \in {"returned", "raised"}

\* C6: parse of the empty descriptor string (the value of a config line
\* "paragraph =") does not fail and returns a Composite without children,
\* whose application sends nothing to the sink.
C6_EmptyDescriptor ==
    (styles_str = <<>> /\ ParseDone) =>
        /\ sp_raised = None
        /\ sp_result = Some(CompositeStyle(<<>>))
        /\ Apply(sp_result[1]) = <<>>

\* the empty descriptor has been parsed
C6_Parsed == styles_str = <<>> /\ ParseDone

\* C7: a descriptor of n >= 1 valid tokens (any case, any white space around
\* each) never fails; parse returns the token's Style itself for n = 1, and for
\* n >= 2 a Composite whose children are the tokens' Styles in input order,
\* none dropped, duplicated or reordered.
C7_ValidTokens ==
    AllValid =>
        /\ sp_pc # "raised"
        /\ sp_raised = None
        /\ sp_pc = "returned" =>
              sp_result =
                  IF Len(raw_tokens) = 1
                  THEN Meaning(raw_tokens[1])
                  ELSE Some(CompositeStyle(
                           [i \in 1..Len(raw_tokens) |-> Meaning(raw_tokens[i])[1]]))

\* "bold, fgcolour(208)" has been parsed to Composite [Bold, ForegroundColour(208)]
C7_Witness ==
    /\ raw_tokens = <<W_bold, T_fg208>>
    /\ sp_pc = "returned"
    /\ sp_result = Some(CompositeStyle(<<BoldStyle, ForegroundColourStyle(208)>>))

\* a single padded, capitalised token has been parsed to its Style itself
C7_Single ==
    /\ raw_tokens = <<T_BG7>>
    /\ sp_pc = "returned"
    /\ sp_result = Some(BackgroundColourStyle(7))

\* C8 (as stated): a descriptor with an invalid token never returns a Style,
\* and the error parse fails with names an offending token exactly as it was
\* written in the descriptor.
C8_NamesVerbatim ==
    (~AllValid) =>
        /\ sp_pc # "returned"
        /\ sp_result = None
        /\ sp_pc = "raised" =>
              /\ sp_raised # None
              /\ sp_raised[1].message = "Unknown style identifier"
              /\ \E i \in 1..Len(raw_tokens) :
                    /\ Meaning(raw_tokens[i]) = None
                    /\ sp_raised[1].argument = raw_tokens[i]

\* C8 (amended): a descriptor with an invalid token never returns a Style,
\* whatever the position of the token and whatever valid tokens surround it;
\* parse fails with 'Unknown style identifier' naming the first invalid token
\* with its surrounding white space removed and in lower case.
C8_NamesNormalised ==
    (~AllValid) =>
        /\ sp_pc # "returned"
        /\ sp_result = None
        /\ sp_pc = "raised" =>
              sp_raised = Some([message |-> "Unknown style identifier",
                                argument |-> Trimmed(raw_tokens[FirstInvalid])])

\* "bold, Underilne" has failed, the error naming "underilne"
C8_Witness ==
    /\ raw_tokens = <<W_bold, T_Underilne>>
    /\ sp_pc = "raised"
    /\ sp_raised = Some([message |-> "Unknown style identifier",
                         argument |-> T_underilne])
    /\ sp_result = None

\* an invalid token between two valid ones has failed the parse
C8_Middle ==
    /\ Len(raw_tokens) = 3
    /\ raw_tokens[1] = W_bold
    /\ raw_tokens[2] = T_fg2080
    /\ raw_tokens[3] = W_italic
    /\ sp_pc = "raised"
    /\ sp_raised[1].argument = T_fg2080

----------------------------------------------------------------------------
(* Config.load, StylesConfig and FormattingConfig *)

\* the 16 recognized role names
RoleNames ==
    {K_heading_base, K_heading1, K_heading2, K_heading3, K_heading4, K_heading5,
     K_heading6, K_strong, K_emphasis, K_inline_code, K_link, K_link_index,
     K_link_hint, K_list_bullet, K_list_number, K_paragraph}

\* the values of the files' entries that are style descriptors
ValueParses(v) == v = W_italic

HeadingBaseDefault == CompositeStyle(<<ClearStyle, BoldStyle, ForegroundColourStyle(208)>>)

\* every role at its built-in default
DefaultStyles ==
    [heading_base |-> HeadingBaseDefault,
     headings |-> <<CompositeStyle(<<HeadingBaseDefault, None>>),
                    CompositeStyle(<<HeadingBaseDefault, None>>),
                    CompositeStyle(<<HeadingBaseDefault, FaintStyle>>),
                    CompositeStyle(<<HeadingBaseDefault, FaintStyle>>),
                    CompositeStyle(<<HeadingBaseDefault, FaintStyle>>),
                    CompositeStyle(<<HeadingBaseDefault, FaintStyle>>)>>,
     strong |-> BoldStyle,
     emphasis |-> ItalicStyle,
     inline_code |-> CompositeStyle(<<ClearStyle, ForegroundColourStyle(196),
                                      BackgroundColourStyle(52)>>),
     link |-> CompositeStyle(<<UnderlineStyle, ForegroundColourStyle(82)>>),
     link_index |-> ForegroundColourStyle(82),
     link_hint |-> ForegroundColourStyle(240),
     list_bullet |-> ForegroundColourStyle(208),
     list_number |-> ForegroundColourStyle(208),
     paragraph |-> None]

HeaderLines == {LL_styles, LL_formatting, LL_style}

\* the entry lines of a file that stand under the header h
EntriesUnder(f, h) ==
    {i \in 1..Len(f) :
        /\ f[i] \notin HeaderLines
        /\ \E j \in 1..(i - 1) :
              /\ f[j] = h
              /\ \A k \in (j + 1)..(i - 1) : f[k] \notin HeaderLines}

\* the file has no entry before its first header and no header twice
ReadsFine(f) ==
    /\ f # <<>> => f[1] \in HeaderLines
    /\ \A i, j \in 1..Len(f) : (f[i] \in HeaderLines /\ f[i] = f[j]) => i = j

LoadOver == ld_pc \in {"done", "raised"}

UnknownStylesSetting ==
    /\ ld_pc = "raised"
    /\ ld_raised # None
    /\ ld_raised[1].message = "Unknown setting in styles section"

\* C11: for a styles group whose recognized keys all have values that parse,
\* building StylesConfig fails with 'Unknown setting in styles section' naming
\* a key of the group outside the 16 role names if and only if the group
\* holds such a key; when it does not fail every key of the map it was given
\* has been deleted from that map.
C11_UnknownSetting ==
    (/\ sc_input # None
     /\ \A k \in DOMAIN sc_input[1] \cap RoleNames : ValueParses(sc_input[1][k]))
    => LET extra == DOMAIN sc_input[1] \ RoleNames
       IN  /\ extra # {} => (UnknownStylesSetting /\ ld_raised[1].argument \in extra)
           /\ extra = {} => (~UnknownStylesSetting /\ ld_config[G_styles] = EmptyMap)

\* [styles] with strong = italic and foo = bar has failed, naming foo
C11_Witness ==
    /\ ld_file = <<LL_styles, LL_strong, LL_foo>>
    /\ UnknownStylesSetting
    /\ ld_raised[1].argument = <<"f", "o", "o">>

\* [styles] with strong = italic alone has been built, its key consumed
C11_Consumed ==
    /\ ld_file = <<LL_styles, LL_strong>>
    /\ ld_pc = "done"
    /\ sc_input = Some(MapSet(EmptyMap, K_strong, W_italic))
    /\ ld_config[G_styles] = EmptyMap
    /\ loaded["styles"].strong = ItalicStyle

\* no entry of the file stands under [styles]
NoStylesEntries == EntriesUnder(ld_file, LL_styles) = {}

\* C12: Config.load gives the same style set, every role at its built-in
\* default, when there is no file, when the file has no [styles] group and
\* when its [styles] group has no entries.
C12_SameDefaults ==
    (ld_pc = "done" /\ (~ld_exists \/ NoStylesEntries))
    => /\ loaded["styles"] = DefaultStyles
       /\ DOMAIN loaded = {"styles", "formatting"}

\* a file whose [styles] group has no entries has been loaded
C12_Witness ==
    /\ ld_exists /\ ld_file = <<LL_styles>>
    /\ ld_pc = "done"
    /\ sc_input = Some(EmptyMap)
    /\ loaded["styles"] = DefaultStyles

\* no file has been loaded
C12_NoFile == ~ld_exists /\ ld_pc = "done" /\ loaded["styles"] = DefaultStyles

\* a file without a [styles] group has been loaded
C12_NoGroup ==
    /\ ld_exists /\ ld_file = <<LL_formatting>>
    /\ ld_pc = "done"
    /\ sc_input = None
    /\ loaded["styles"] = DefaultStyles

\* C20: whether a file loads, and what it loads to, depends on the entries
\* under [styles] and [formatting] alone: a group of another name ([style])
\* raises nothing and its entries change nothing, while an entry under
\* [formatting] always fails the load.
C20_OnlyKnownGroups ==
    (ld_exists /\ LoadOver)
    => LET styled == EntriesUnder(ld_file, LL_styles)
           formatted == EntriesUnder(ld_file, LL_formatting)
       IN  /\ ld_pc = "done" <=>
                 /\ ReadsFine(ld_file)
                 /\ formatted = {}
                 /\ \A i \in styled : ld_file[i] = LL_strong
           /\ ld_pc = "done" =>
                 loaded["styles"] =
                     IF styled = {} THEN DefaultStyles
                     ELSE [DefaultStyles EXCEPT !.strong = ItalicStyle]
           /\ formatted # {} => ld_pc = "raised"

\* [style] with foo = bar has been loaded, to the defaults
C20_Witness ==
    /\ ld_exists /\ ld_file = <<LL_style, LL_foo>>
    /\ ld_pc = "done"
    /\ loaded["styles"] = DefaultStyles

\* [formatting] with an entry has failed the load
C20_FormattingFails ==
    /\ ld_exists /\ ld_file = <<LL_formatting, LL_strong>>
    /\ ld_pc = "raised"
    /\ ld_raised = Some([message |-> "Unknown setting in formatting section",
                         argument |-> K_strong])

----------------------------------------------------------------------------
(* The body text in the sink *)

\* a sink without the prefixes sent to it: what stands between two Clear is
\* a prefix (there are no styled groups)
RECURSIVE BodyFrom(_, _)
BodyFrom(s, inprefix) ==
    IF s = <<>> THEN <<>>
    ELSE IF Head(s) = "<clear>" THEN BodyFrom(Tail(s), ~inprefix)
    ELSE IF inprefix THEN BodyFrom(Tail(s), inprefix)
    ELSE <<Head(s)>> \o BodyFrom(Tail(s), inprefix)

Body(s) == BodyFrom(s, FALSE)

\* the printable characters after the last line break
RECURSIVE OnLastLine(_)
OnLastLine(s) ==
    IF s = <<>> \/ s[Len(s)] = "\n" THEN 0
    ELSE OnLastLine(SubSeq(s, 1, Len(s) - 1)) + (IF TakesColumn(s[Len(s)]) THEN 1 ELSE 0)

\* C14: at the return of every write_text call on a string chars_on_line is
\* the number of printable body characters (the prefix left out) on the
\* current line of the sink, the characters carried over a break included.
C14_ExactCount ==
    (pc = "idle" /\ prefix_sets = 0) => chars_on_line = OnLastLine(Body(out))

\* a call has returned after a break that carried characters
C14_Carried ==
    /\ pc = "idle" /\ prefix_sets = 0
    /\ columns = 2 /\ fed = <<"a", " ", "a">>
    /\ out = <<"a", "\n", "a">>
    /\ chars_on_line = 0

----------------------------------------------------------------------------
(* C17 *)

\* C17: 1 <= line_space <= columns for every columns >= 1 and every prefix,
\* also one longer than columns; at the return of every write_text call and
\* of every prefix assignment 0 <= chars_on_line <= line_space.
C17_LineBudget ==
    /\ 1 <= line_space(Writer)
    /\ line_space(Writer) <= columns
    /\ pc = "idle" =>
          /\ 0 <= chars_on_line
          /\ chars_on_line <= line_space(Writer)
          /\ available_line_space(Writer) >= 0

\* a prefix longer than the line has been assigned and the line filled
C17_Witness ==
    /\ columns = 3
    /\ prefix = <<">", ">", ">", ">">>
    /\ prefix_printable_length = 4
    /\ pc = "idle"
    /\ fed = <<"a", "a">>
    /\ chars_on_line = 2
    /\ line_space(Writer) = 2

----------------------------------------------------------------------------
(* C18 *)

\* the characters the running call has consumed, with those of the calls
\* before it
Consumed == SubSeq(fed, 1, Len(fed) - Len(text))

\* body is the input with spaces turned into line breaks and line breaks
\* put in, and nothing else changed
RECURSIVE Preserves(_, _)
Preserves(body, input) ==
    IF body = <<>> THEN input = <<>>
    ELSE \/ input # <<>> /\ Head(body) = Head(input) /\ Preserves(Tail(body), Tail(input))
         \/ /\ Head(body) = "\n"
            /\ \/ input # <<>> /\ Head(input) = " " /\ Preserves(Tail(body), Tail(input))
               \/ Preserves(Tail(body), input)

\* one character is consumed: it is kept; a space-based break turns the last
\* space of the buffer into the line break; a hard break puts the line break
\* before the character
C18_CharStep ==
    (pc = "loop" /\ text # <<>>)
    => LET b == Append(buf, Head(text))
       IN  Body(out') \o buf' =
              Body(out) \o
                 (IF ~Overflows THEN b
                  ELSE IF \E i \in 1..Len(b) : b[i] = " "
                  THEN [b EXCEPT ![LastSpace(b)] = "\n"]
                  ELSE SubSeq(b, 1, Len(b) - 1) \o <<"\n", b[Len(b)]>>)

\* the call returns: the buffer goes to the sink
C18_ReturnStep ==
    (pc = "loop" /\ text = <<>>) => (Body(out') = Body(out) \o buf /\ buf' = <<>>)

C18_Kept ==
    /\ Preserves(Body(out) \o buf, Consumed)
    /\ pc = "idle" => buf = <<>>

\* C18: the sink without the prefixes is the input in order, each character
\* once, but for the one space each space-based break turns into its line
\* break; a hard break removes nothing; nothing is left in the buffer when a
\* call returns.
C18_ContentPreserved == [][C18_CharStep /\ C18_ReturnStep]_vars /\ []C18_Kept

\* a space-based break and a hard break have happened in one call
C18_Witness ==
    /\ columns = 1 /\ prefix_sets = 0 /\ pc = "idle"
    /\ fed = <<"a", " ", "a">>
    /\ out = <<"a", "\n", "a">>

\* a hard break has happened
C18_Hard ==
    /\ columns = 1 /\ prefix_sets = 0 /\ pc = "idle"
    /\ fed = <<"a", "a">>
    /\ out = <<"a", "\n", "a">>

----------------------------------------------------------------------------
(* C19 *)

\* the input is one run of printable characters
OneToken == fed # <<>> /\ \A i \in 1..Len(fed) : fed[i] = "a"

\* C19: without a prefix, a run of printable characters without space or
\* newline that is longer than columns is cut into lines of at most columns
\* printable characters, the first and all that follow.
C19_HardBreakLines ==
    (prefix_sets = 0 /\ pc = "idle" /\ OneToken) => LongestLine(out) <= columns

\* a token longer than the line has been written
C19_Written ==
    /\ prefix_sets = 0 /\ pc = "idle" /\ OneToken
    /\ Len(fed) > columns

----------------------------------------------------------------------------
(* C15 *)

\* the line breaks a step sends to the sink
NewBreaks == {i \in (Len(out) + 1)..Len(out') : out'[i] = "\n"}

\* a line break sent with a prefix set is followed by Clear, the prefix,
\* Clear and the styles of the stack, and by nothing else; the stack is as it
\* was and chars_on_line is 0
C15_BreakStep ==
    \A i \in NewBreaks :
        prefix' # <<>> =>
            /\ SubSeq(out', i + 1, Len(out')) = AfterBreak(prefix', style_stack)
            /\ style_stack' = style_stack
            /\ chars_on_line' = 0

\* C15: every line break DisplayWriter sends with a non-empty prefix (literal
\* newline, space-based break, hard break) is followed by Clear, the prefix,
\* Clear and the escape of every style of the body stack in stack order
\* before any further body text; the stack is the same after the prefix as
\* before it, and chars_on_line is 0.
C15_PrefixNoLeak == [][C15_BreakStep]_vars

\* a literal newline in a Bold group has been followed by the prefix and Bold
C15_Witness ==
    /\ prefix = <<">">>
    /\ style_stack = <<BoldStyle>>
    /\ pc = "loop" /\ text = <<"a">> /\ buf = <<>>
    /\ chars_on_line = 0
    /\ Len(out) >= 6
    /\ SubSeq(out, Len(out) - 5, Len(out))
         = <<"a", "\n", "<clear>", ">", "<clear>", "<bold>">>

\* a hard break under a prefix, in a group, has happened
C15_HardBreak ==
    /\ columns = 2
    /\ prefix = <<">">>
    /\ style_stack = <<ItalicStyle>>
    /\ pc = "loop" /\ buf = <<"a">>
    /\ chars_on_line = 0
    /\ Len(out) >= 6
    /\ SubSeq(out, Len(out) - 5, Len(out))
         = <<"a", "\n", "<clear>", ">", "<clear>", "<italic>">>

----------------------------------------------------------------------------
(* C16 *)

\* the styles of the groups being walked that carry one, outermost first
RECURSIVE StyledAncestors(_)
StyledAncestors(groups) ==
    IF groups = <<>> THEN <<>>
    ELSE (IF Head(groups) = None THEN <<>> ELSE Head(groups))
         \o StyledAncestors(Tail(groups))

\* C16: from an empty stack, whenever write_text forwards the text of a
\* string leaf the style stack holds one style for each enclosing group that
\* carries a style (a group without a style changes nothing), and when the
\* walk of a tree is over the stack is what it was before.
C16_StackDepth ==
    /\ Len(style_stack) = Len(StyledAncestors(group_stack))
    /\ style_stack = StyledAncestors(group_stack)
    /\ group_stack = <<>> => style_stack = <<>>

\* a leaf in a group without a style, in a Bold group, is written under a prefix
C16_Witness ==
    /\ group_stack = <<Some(BoldStyle), None>>
    /\ prefix = <<">">>
    /\ pc = "loop" /\ text = <<"\n", "a">> /\ buf = <<"a">>
    /\ style_stack = <<BoldStyle>>

\* a tree of two nested styled groups has been walked, its leaf breaking a line
C16_Walked ==
    /\ group_stack = <<>> /\ pc = "idle" /\ steps = 4
    /\ prefix = <<">">>
    /\ fed = <<"a", "\n", "a">>
    /\ style_stack = <<>>

----------------------------------------------------------------------------
(* C13 *)

\* the second writer has been fed all the calls of the first
Replayed == run = 2 /\ first # None /\ trace = first[1].trace /\ pc = "idle"

====
